---- MODULE Spec2Model ----
(***************************************************************************)
(* Model of the openpifpaf decoder configuration layer                     *)
(* (src/openpifpaf/decoder/factory.py) and of one decode call of the       *)
(* greedy CIF/CAF assembler it configures.                                 *)
(*                                                                         *)
(* Floating point thresholds, scales and distances are held as integers    *)
(* in thousandths (0.001 is 1, 0.2 is 200, 12.0 is 12000): every value the *)
(* code compares is a decimal literal with at most three fractional digits *)
(* and the code only compares, copies and multiplies them by 3.0.          *)
(***************************************************************************)
EXTENDS Integers, Sequences, FiniteSets, TLC

\* Python's None, for the integer valued options that may be left unset.
None == -1

\* ------------------------------------------------------------------------
\* Bounds of the model
\* ------------------------------------------------------------------------

\* largest batch size tried
MaxBatch == 2
\* largest number of seeds in the pool of a decode call
MaxSeeds == 2
\* largest image coordinate of a seed or joint
MaxX == 2

\* ------------------------------------------------------------------------
\* Program constants (thousandths)
\* ------------------------------------------------------------------------

\* cli(): seed_threshold=0.2
SeedThresholdDefault == 200
\* configure(): 0.001 when the complete pose is not forced
KeypointThresholdUnforced == 1
\* configure(): 0.0 when the complete pose is forced
KeypointThresholdForced == 0
\* cli(): --dense-coupling default 0.01
DenseCouplingDefault == 10
\* factory_decode(): confidence scale 1.0 of a base skeleton edge
BaseEdgeScale == 1000
\* factory_decode(): range(5), the scales of a multi-scale model
NumScales == 5
\* factory_decode(): range(10), the scales plus their horizontal flips
NumScalesHflip == 10

VARIABLES
    CifHr,          \* class attributes of CifHr
    CifSeeds,       \* class attributes of CifSeeds
    CafScored,      \* class attributes of CafScored
    CifCaf,         \* class attributes of generator.CifCaf
    Processor,      \* class attributes of Processor
    call,           \* the operation called last
    given,          \* the argument namespace as passed to the last call
    args,           \* the same namespace after the call
    raised,         \* the exception the last call ended with, or "none"
    configured,     \* how configure() ended within the last call: "ok", the
                    \* exception it raised, or "none" when it was not called
    decode,         \* the decoder the last call instantiated, or NoDecoder
    processor,      \* the Processor the last call returned, or NoProcessor
    \* one decode call
    seeds,          \* the seed pool, sorted by score descending
    caf,            \* the association the CAF field holds, or NoCaf
    instance_threshold, \* the Processor's instance filter
    pc,             \* "idle", "seed", "grow" or "done"
    pos,            \* index of the next seed of the pool
    occupancy,      \* per keypoint class, the cells that are marked
    current,        \* the instance being grown, or NoInstance
    started,        \* indices of the seeds an instance was started from
    annotations,    \* the finalized instances that were kept
    \* a second decode call on the same fields under the same configuration,
    \* run in step with the first: only its instance filter differs
    instance_threshold_2,   \* the instance filter of the second call
    annotations_2,          \* the finalized instances the second call kept
    \* the visualizer configuration (src/openpifpaf/visualizer/cli.py)
    visualizer,     \* class attributes of BaseVisualizer, Caf, Cif, CifHr,
                    \* Occupancy and Seeds
    vis_call,       \* "idle", or "configure" after a configure() call
    vis_given,      \* the namespace as passed to the last configure() call
    vis_args,       \* the same namespace after the call
    vis_raised,     \* the exception the last call ended with, or "none"
    debug_seen,     \* a configure() call with args.debug set has returned
    \* the dental data module (src/src/openpifpaf/plugins/dental)
    DentalKp,           \* class attributes of DentalKp
    POSE,               \* the module-level array of constants.py
    dental_call,        \* "idle", "configure" or "__init__"
    dental_given,       \* the namespace passed to the last configure() call
    dental_raised,      \* the exception the last call ended with, or "none"
    head_metas,         \* head_metas of the instance under construction
    dental_configured   \* a DentalKp.configure() call has returned

cfgVars == <<CifHr, CifSeeds, CafScored, CifCaf, Processor,
             call, given, args, raised, configured, decode, processor>>

decVars == <<seeds, caf, instance_threshold, pc, pos, occupancy, current,
             started, annotations, instance_threshold_2, annotations_2>>

visVars == <<visualizer, vis_call, vis_given, vis_args, vis_raised, debug_seen>>

dentalVars == <<DentalKp, POSE, dental_call, dental_given, dental_raised,
                head_metas, dental_configured>>

vars == <<cfgVars, decVars, visVars, dentalVars>>

NoArgs == [none |-> TRUE]
NoDecoder == [kind |-> "none"]
NoProcessor == [built |-> FALSE]

\* ------------------------------------------------------------------------
\* Inputs
\* ------------------------------------------------------------------------

Thresholds == {KeypointThresholdForced, KeypointThresholdUnforced, SeedThresholdDefault}

\* the options configure() reads
ConfigureArgs ==
    [ cif_th : {100},
      caf_th : {100},
      seed_threshold : Thresholds,
      keypoint_threshold : {None} \cup Thresholds,
      force_complete_pose : BOOLEAN,
      greedy : {FALSE},
      connection_method : {"max", "blend"},   \* choices=('max', 'blend')
      decoder_workers : {None, 1},
      batch_size : {None} \cup (1..MaxBatch),
      debug : BOOLEAN ]

\* ------------------------------------------------------------------------
\* configure(args)
\* ------------------------------------------------------------------------

\* the two defaults exchanged
DerivedKeypointThresholdSwapped(a) ==
    IF a.keypoint_threshold = None
    THEN (IF a.force_complete_pose THEN KeypointThresholdUnforced
                                   ELSE KeypointThresholdForced)
    ELSE a.keypoint_threshold

\* lines 79-80: the default keypoint filter depends on force_complete_pose
DerivedKeypointThreshold(a) ==
    IF a.keypoint_threshold = None
    THEN (IF ~a.force_complete_pose THEN KeypointThresholdUnforced
                                    ELSE KeypointThresholdForced)
    ELSE a.keypoint_threshold

\* the assertion of line 84 left out
ForceCompleteCheckDropped(a) == TRUE

\* line 84: assert args.keypoint_threshold == 0.0 under force_complete_pose
ForceCompleteCheck(a) ==
    a.force_complete_pose => a.keypoint_threshold = 0

\* the assertion of line 85 left out
SeedCheckDropped(a) == TRUE

\* line 85: assert args.seed_threshold >= args.keypoint_threshold
SeedCheck(a) ==
    a.seed_threshold >= a.keypoint_threshold

\* getattr(args, 'batch_size', 1): a namespace without batch_size counts as 1
BatchSize(a) == IF a.batch_size = None THEN 1 ELSE a.batch_size

\* the batch size overrides a worker count that was given
DecoderWorkersOverride(a) ==
    IF BatchSize(a) > 1 /\ ~a.debug
    THEN a.batch_size
    ELSE a.decoder_workers

\* lines 94-97: the worker pool defaults to the batch size
DecoderWorkers(a) ==
    IF a.decoder_workers = None /\ BatchSize(a) > 1 /\ ~a.debug
    THEN a.batch_size
    ELSE a.decoder_workers

\* configure(args) as a function of the namespace and the class attributes:
\* the class attributes and the namespace it leaves behind, and the
\* exception it ends with.  The assignments of lines 64-80 are done before
\* the assertions of lines 83-85, those of lines 88-97 only after them.
configure(a) ==
    LET a1 == [a EXCEPT !.keypoint_threshold = DerivedKeypointThreshold(a)]
        ok == ForceCompleteCheck(a1) /\ SeedCheck(a1)
    IN  [ CifHr     |-> [CifHr EXCEPT !.v_threshold = a.cif_th,
                                      !.debug_visualizer = TRUE],
          CifSeeds  |-> [CifSeeds EXCEPT !.threshold = a.seed_threshold,
                                         !.debug_visualizer = TRUE],
          CafScored |-> [CafScored EXCEPT !.default_score_th = a.caf_th],
          Processor |-> [Processor EXCEPT !.debug_visualizer = TRUE],
          CifCaf    |-> IF ok
                        THEN [ debug_visualizer  |-> TRUE,
                               force_complete    |-> a1.force_complete_pose,
                               keypoint_threshold |-> a1.keypoint_threshold,
                               greedy            |-> a1.greedy,
                               connection_method |-> a1.connection_method ]
                        ELSE [CifCaf EXCEPT !.debug_visualizer = TRUE],
          args      |-> IF ok
                        THEN [a1 EXCEPT !.decoder_workers = DecoderWorkers(a1)]
                        ELSE a1,
          raised    |-> IF ok THEN "none" ELSE "AssertionError" ]

Configure(a) ==
    /\ call = "idle"
    /\ \E r \in {configure(a)} :
        /\ CifHr' = r.CifHr
        /\ CifSeeds' = r.CifSeeds
        /\ CafScored' = r.CafScored
        /\ Processor' = r.Processor
        /\ CifCaf' = r.CifCaf
        /\ call' = "configure"
        /\ given' = a
        /\ args' = r.args
        /\ raised' = r.raised
        /\ configured' = (IF r.raised = "none" THEN "ok" ELSE r.raised)
        /\ decode' = NoDecoder
        /\ processor' = NoProcessor
        /\ UNCHANGED <<decVars, visVars, dentalVars>>

\* ------------------------------------------------------------------------
\* Data the factory imports (openpifpaf.data, decoder.field_config)
\* ------------------------------------------------------------------------

COCO_KEYPOINTS ==
    << "nose", "left_eye", "right_eye", "left_ear", "right_ear",
       "left_shoulder", "right_shoulder", "left_elbow", "right_elbow",
       "left_wrist", "right_wrist", "left_hip", "right_hip",
       "left_knee", "right_knee", "left_ankle", "right_ankle" >>

COCO_PERSON_SKELETON ==
    << <<16, 14>>, <<14, 12>>, <<17, 15>>, <<15, 13>>, <<12, 13>>, <<6, 12>>,
       <<7, 13>>, <<6, 7>>, <<6, 8>>, <<7, 9>>, <<8, 10>>, <<9, 11>>,
       <<2, 3>>, <<1, 2>>, <<1, 3>>, <<2, 4>>, <<3, 5>>, <<4, 6>>, <<5, 7>> >>

DENSER_COCO_PERSON_SKELETON ==
    << <<1, 2>>, <<1, 3>>, <<2, 3>>, <<1, 4>>, <<1, 5>>, <<4, 5>>,
       <<1, 6>>, <<1, 7>>, <<2, 6>>, <<3, 7>>,
       <<2, 4>>, <<3, 5>>, <<4, 6>>, <<5, 7>>, <<6, 7>>,
       <<6, 12>>, <<7, 13>>, <<6, 13>>, <<7, 12>>, <<12, 13>>,
       <<6, 8>>, <<7, 9>>, <<8, 10>>, <<9, 11>>, <<6, 10>>, <<7, 11>>,
       <<8, 9>>, <<10, 11>>,
       <<10, 12>>, <<11, 13>>,
       <<10, 14>>, <<11, 15>>,
       <<14, 12>>, <<15, 13>>, <<12, 15>>, <<13, 14>>,
       <<12, 16>>, <<13, 17>>,
       <<16, 14>>, <<17, 15>>, <<14, 17>>, <<15, 16>>,
       <<14, 15>>, <<16, 17>> >>

\* the edges of the denser skeleton that the base skeleton does not have
DENSER_COCO_PERSON_CONNECTIONS ==
    SelectSeq(DENSER_COCO_PERSON_SKELETON,
              LAMBDA c : \A k \in 1..Len(COCO_PERSON_SKELETON) :
                             COCO_PERSON_SKELETON[k] # c)

\* FieldConfig(): one CIF/CAF pair at stride 8; the empty list stands for a
\* list attribute that is None
FieldConfig ==
    [ cif_indices |-> <<0>>,
      caf_indices |-> <<1>>,
      cif_strides |-> <<8>>,
      caf_strides |-> <<8>>,
      cif_min_scales |-> <<0>>,
      caf_min_distances |-> <<0>>,
      caf_max_distances |-> <<None>>,
      confidence_scales |-> <<>>,
      cif_visualizers |-> <<>>,
      caf_visualizers |-> <<>> ]

\* ------------------------------------------------------------------------
\* factory_decode(model, ...)
\* ------------------------------------------------------------------------

\* [v * mul + add for v in range(n)]
Indices(n, mul, add) == [k \in 1..n |-> (k - 1) * mul + add]

\* every index of idx is a valid (zero-based) index of the list s
AllInRange(s, idx) == \A k \in 1..Len(idx) : idx[k] < Len(s)

\* [s[i] for i in idx]
Gather(s, idx) == [k \in 1..Len(idx) |-> s[idx[k] + 1]]

\* lines 138-143 and 150-155: the head indices of n CIF/CAF pairs
ScaleIndices(n, dense_connections) ==
    IF ~dense_connections
    THEN [cif |-> Indices(n, 3, 0), caf |-> Indices(n, 3, 1)]
    ELSE [cif |-> Indices(n, 2, 0), caf |-> Indices(n, 2, 1)]

\* line 146
CifMinScales == <<0, 12000, 16000, 24000, 40000>>

\* line 147: [v * 3.0 for v in cif_min_scales]
CafMinDistances(cif_min_scales) ==
    [k \in 1..Len(cif_min_scales) |-> cif_min_scales[k] * 3]

\* line 148
CafMaxDistances == <<160000, 240000, 320000, 480000, None>>

\* lines 137-148: the field configuration of a multi-scale model
MultiScale(fc, model, dense_connections) ==
    LET idx == ScaleIndices(NumScales, dense_connections)
    IN  IF ~AllInRange(model.head_strides, idx.cif)
           \/ ~AllInRange(model.head_strides, idx.caf)
        THEN [raised |-> "IndexError", fc |-> fc]
        ELSE [raised |-> "none",
              fc |-> [fc EXCEPT
                        !.cif_indices = idx.cif,
                        !.caf_indices = idx.caf,
                        !.cif_strides = Gather(model.head_strides, idx.cif),
                        !.caf_strides = Gather(model.head_strides, idx.caf),
                        !.cif_min_scales = CifMinScales,
                        !.caf_min_distances = CafMinDistances(CifMinScales),
                        !.caf_max_distances = CafMaxDistances]]

\* lines 149-160: the horizontally flipped scales are appended
MultiScaleHflip(fc, model, dense_connections) ==
    LET idx == ScaleIndices(NumScalesHflip, dense_connections)
    IN  IF ~AllInRange(model.head_strides, idx.cif)
           \/ ~AllInRange(model.head_strides, idx.caf)
        THEN [raised |-> "IndexError", fc |-> fc]
        ELSE [raised |-> "none",
              fc |-> [fc EXCEPT
                        !.cif_indices = idx.cif,
                        !.caf_indices = idx.caf,
                        !.cif_strides = Gather(model.head_strides, idx.cif),
                        !.caf_strides = Gather(model.head_strides, idx.caf),
                        !.cif_min_scales = @ \o @,
                        !.caf_min_distances = @ \o @,
                        !.caf_max_distances = @ \o @]]

\* the multipliers of the base edges forgotten
ConfidenceScalesDenseOnly(dense_coupling) ==
    [k \in 1..Len(DENSER_COCO_PERSON_CONNECTIONS) |-> dense_coupling]

\* lines 163-166: one multiplier per edge of the dense skeleton
ConfidenceScales(dense_coupling) ==
    [k \in 1..Len(COCO_PERSON_SKELETON) |-> BaseEdgeScale]
    \o [k \in 1..Len(DENSER_COCO_PERSON_CONNECTIONS) |-> dense_coupling]

\* lines 167-169: the skeleton the decoder follows
Skeleton(dense_connections) ==
    IF dense_connections
    THEN COCO_PERSON_SKELETON \o DENSER_COCO_PERSON_CONNECTIONS
    ELSE COCO_PERSON_SKELETON

\* line 175: zip() stops at the shorter list
ZipLen(s, t) == IF Len(s) <= Len(t) THEN Len(s) ELSE Len(t)

\* lines 171-176: the CIF visualizers; the stride is read from cif_strides
\* at the head index i, not at the position of the pair
CifVisualizers(fc, model, skeleton) ==
    LET n == ZipLen(fc.cif_indices, fc.cif_strides)
    IN  IF \E k \in 1..n : \/ fc.cif_indices[k] >= Len(model.head_names)
                           \/ fc.cif_indices[k] >= Len(fc.cif_strides)
        THEN [raised |-> "IndexError", list |-> <<>>]
        ELSE [raised |-> "none",
              list |-> [k \in 1..n |->
                          [ head_name |-> model.head_names[fc.cif_indices[k] + 1],
                            stride |-> fc.cif_strides[fc.cif_indices[k] + 1],
                            keypoints |-> COCO_KEYPOINTS,
                            skeleton |-> skeleton ]]]

\* lines 177-182: the CAF visualizers; the stride is the zipped one
CafVisualizers(fc, model, skeleton) ==
    LET n == ZipLen(fc.caf_indices, fc.caf_strides)
    IN  IF \E k \in 1..n : fc.caf_indices[k] >= Len(model.head_names)
        THEN [raised |-> "IndexError", list |-> <<>>]
        ELSE [raised |-> "none",
              list |-> [k \in 1..n |->
                          [ head_name |-> model.head_names[fc.caf_indices[k] + 1],
                            stride |-> fc.caf_strides[k],
                            keypoints |-> COCO_KEYPOINTS,
                            skeleton |-> skeleton ]]]

\* lines 1-10: the module imports generator, FieldConfig, CafScored, CifHr,
\* CifSeeds, Processor and visualizer; it binds no name CifDet
CifDetBound == FALSE

\* lines 131-132: the detection-only decoder.  The callee name is looked up
\* before its arguments are evaluated.
CifDetBranch(model) ==
    IF ~CifDetBound
    THEN [raised |-> "NameError", decode |-> NoDecoder]
    ELSE IF Len(model.head_strides) = 0
    THEN [raised |-> "IndexError", decode |-> NoDecoder]
    ELSE [raised |-> "none",
          decode |-> [kind |-> "CifDet",
                      stride |-> model.head_strides[1],
                      head_index |-> 0]]

\* lines 134-190: the CIF/CAF decoder
CifCafBranch(model, dense_coupling, dense_connections, multi_scale, multi_scale_hflip) ==
    LET s1 == IF multi_scale
              THEN MultiScale(FieldConfig, model, dense_connections)
              ELSE [raised |-> "none", fc |-> FieldConfig]
        s2 == IF s1.raised = "none" /\ multi_scale /\ multi_scale_hflip
              THEN MultiScaleHflip(s1.fc, model, dense_connections)
              ELSE s1
        fc3 == IF dense_connections
               THEN [s2.fc EXCEPT !.confidence_scales = ConfidenceScales(dense_coupling)]
               ELSE s2.fc
        skeleton == Skeleton(dense_connections)
        cifv == CifVisualizers(fc3, model, skeleton)
        cafv == CafVisualizers(fc3, model, skeleton)
    IN  IF s2.raised # "none" THEN [raised |-> s2.raised, decode |-> NoDecoder]
        ELSE IF cifv.raised # "none" THEN [raised |-> cifv.raised, decode |-> NoDecoder]
        ELSE IF cafv.raised # "none" THEN [raised |-> cafv.raised, decode |-> NoDecoder]
        ELSE [raised |-> "none",
              decode |-> [kind |-> "CifCaf",
                          field_config |-> [fc3 EXCEPT !.cif_visualizers = cifv.list,
                                                       !.caf_visualizers = cafv.list],
                          keypoints |-> COCO_KEYPOINTS,
                          skeleton |-> skeleton,
                          out_skeleton |-> COCO_PERSON_SKELETON]]

\* line 131: head_names in (('cifdet',),)
IsCifDet(head_names) == head_names = <<"cifdet">>

\* only the first two head names compared
IsCifCafPrefix(head_names) ==
    /\ Len(head_names) >= 2
    /\ head_names[1] = "cif"
    /\ head_names[2] = "caf"

\* line 134: head_names in (('cif', 'caf', 'caf25'),)
IsCifCaf(head_names) == head_names = <<"cif", "caf", "caf25">>

\* factory_decode(): the decoder it returns and the exception it ends with
factory_decode(model, dense_coupling, dense_connections, caf_seeds, multi_scale, multi_scale_hflip) ==
    IF caf_seeds
    THEN [raised |-> "AssertionError", decode |-> NoDecoder]
    ELSE IF IsCifDet(model.head_names)
    THEN CifDetBranch(model)
    ELSE IF IsCifCaf(model.head_names)
    THEN CifCafBranch(model, dense_coupling, dense_connections,
                      multi_scale, multi_scale_hflip)
    ELSE [raised |-> "Exception", decode |-> NoDecoder]

\* the models tried: head names and one stride per head
HeadStrides(n) == [i \in 1..n |-> 8 * (1 + (((i - 1) \div 3) % NumScales))]

Models ==
    { [head_names |-> <<"cifdet">>, head_strides |-> <<16>>],
      [head_names |-> <<"cif", "caf", "caf25">>, head_strides |-> HeadStrides(3)],
      [head_names |-> <<"cif", "caf", "caf25">>, head_strides |-> HeadStrides(15)],
      [head_names |-> <<"cif", "caf", "caf25">>, head_strides |-> HeadStrides(30)],
      [head_names |-> <<"cif", "caf">>, head_strides |-> HeadStrides(2)],
      [head_names |-> <<"cifdet", "cif", "caf">>, head_strides |-> HeadStrides(3)],
      [head_names |-> <<"pif", "paf">>, head_strides |-> HeadStrides(2)],
      [head_names |-> <<>>, head_strides |-> <<>>] }

\* the keyword arguments of factory_decode()
DecodeArgs ==
    [ dense_coupling : {0, DenseCouplingDefault},
      dense_connections : BOOLEAN,
      caf_seeds : BOOLEAN,
      multi_scale : BOOLEAN,
      multi_scale_hflip : BOOLEAN ]

FactoryDecode(model, kw) ==
    /\ call = "idle"
    /\ \E r \in {factory_decode(model, kw.dense_coupling, kw.dense_connections,
                               kw.caf_seeds, kw.multi_scale, kw.multi_scale_hflip)} :
        /\ call' = "factory_decode"
        /\ given' = [model |-> model, kw |-> kw]
        /\ args' = NoArgs
        /\ raised' = r.raised
        /\ configured' = "none"
        /\ decode' = r.decode
        /\ processor' = NoProcessor
        /\ UNCHANGED <<CifHr, CifSeeds, CafScored, CifCaf, Processor>>
        /\ UNCHANGED <<decVars, visVars, dentalVars>>

\* ------------------------------------------------------------------------
\* factory_from_args(args, model)
\* ------------------------------------------------------------------------

\* the namespaces factory_from_args() is tried with: the options of
\* configure() and of factory_decode() and those handed to the Processor
FactoryArgs ==
    [ cif_th : {100},
      caf_th : {100},
      seed_threshold : Thresholds,
      keypoint_threshold : {None} \cup Thresholds,
      force_complete_pose : BOOLEAN,
      greedy : {FALSE},
      connection_method : {"blend"},
      decoder_workers : {None},
      batch_size : {None, MaxBatch},
      debug : {FALSE},
      instance_threshold : {0},
      profile_decoder : {None},
      dense_coupling : {DenseCouplingDefault},
      dense_connections : BOOLEAN,
      caf_seeds : {FALSE},
      multi_scale : BOOLEAN,
      multi_scale_hflip : BOOLEAN ]

\* lines 101-115: configure, then instantiate the decoder, then wrap it in a
\* Processor; an exception of either call ends factory_from_args
factory_from_args(a, model) ==
    LET c == configure(a)
        d == factory_decode(model, c.args.dense_coupling, c.args.dense_connections,
                            c.args.caf_seeds, c.args.multi_scale,
                            c.args.multi_scale_hflip)
    IN  [ configured |-> c,
          raised |-> IF c.raised # "none" THEN c.raised ELSE d.raised,
          decode |-> IF c.raised # "none" THEN NoDecoder ELSE d.decode,
          processor |->
              IF c.raised # "none" \/ d.raised # "none"
              THEN NoProcessor
              ELSE [ built |-> TRUE,
                     model |-> model,
                     decode |-> d.decode,
                     instance_threshold |-> c.args.instance_threshold,
                     keypoint_threshold |-> c.args.keypoint_threshold,
                     profile |-> c.args.profile_decoder,
                     worker_pool |-> c.args.decoder_workers ] ]

FactoryFromArgs(a, model) ==
    /\ call = "idle"
    /\ \E r \in {factory_from_args(a, model)} :
        /\ CifHr' = r.configured.CifHr
        /\ CifSeeds' = r.configured.CifSeeds
        /\ CafScored' = r.configured.CafScored
        /\ Processor' = r.configured.Processor
        /\ CifCaf' = r.configured.CifCaf
        /\ call' = "factory_from_args"
        /\ given' = [model |-> model, args |-> a]
        /\ args' = r.configured.args
        /\ raised' = r.raised
        /\ configured' = (IF r.configured.raised = "none" THEN "ok"
                                                          ELSE r.configured.raised)
        /\ decode' = r.decode
        /\ processor' = r.processor
        /\ UNCHANGED <<decVars, visVars, dentalVars>>

\* ------------------------------------------------------------------------
\* visualizer.cli.configure(args)
\* ------------------------------------------------------------------------

\* a string is a sequence of characters
Digits == <<"0", "1", "2", "3", "4", "5", "6", "7", "8", "9">>

IsDigit(ch) == \E d \in 1..Len(Digits) : Digits[d] = ch

DigitValue(ch) == (CHOOSE d \in 1..Len(Digits) : Digits[d] = ch) - 1

\* int(str) succeeds on a non-empty string of decimal digits
IsInt(str) == Len(str) > 0 /\ \A k \in 1..Len(str) : IsDigit(str[k])

RECURSIVE IntOf(_)
IntOf(str) ==
    IF Len(str) = 0 THEN 0
    ELSE 10 * IntOf(SubSeq(str, 1, Len(str) - 1)) + DigitValue(str[Len(str)])

\* str.partition(':'): the part before the first colon, the colon, the rest;
\* without a colon the string itself and two empty strings
Partition(str) ==
    IF \E k \in 1..Len(str) : str[k] = ":"
    THEN LET k == CHOOSE i \in 1..Len(str) :
                      /\ str[i] = ":"
                      /\ \A j \in 1..(i - 1) : str[j] # ":"
         IN  <<SubSeq(str, 1, k - 1), <<":">>, SubSeq(str, k + 1, Len(str))>>
    ELSE <<str, <<>>, <<>>>>

\* line 24
PartitionAll(debug_indices) ==
    [k \in 1..Len(debug_indices) |-> Partition(debug_indices[k])]

\* line 25: (di[0], int(di[2])) for every partitioned index
ParsedIndices(partitioned) ==
    [k \in 1..Len(partitioned) |->
        <<partitioned[k][1], IntOf(partitioned[k][3])>>]

\* the flag is set to args.debug, and so cleared by a call without debug
ShownUnderDebugReset(shown, debug) == debug

\* lines 34-42: under args.debug the flag is set; it is never cleared
ShownUnderDebug(shown, debug) == IF debug THEN TRUE ELSE shown

\* configure(args): the class attributes and the namespace it leaves
\* behind, and the exception it ends with
configure_visualizer(a) ==
    LET parts == PartitionAll(a.debug_indices)
    IN  IF \E k \in 1..Len(parts) : ~IsInt(parts[k][3])
        THEN [ visualizer |-> visualizer,
               args |-> [a EXCEPT !.debug_indices = parts],
               raised |-> "ValueError" ]
        ELSE [ visualizer |->
                 [ BaseVisualizer |-> [all_indices |-> ParsedIndices(parts)],
                   Caf |-> [ show_confidences |-> (a.debug_caf_c \/ a.debug),
                             show_regressions |-> (a.debug_caf_v \/ a.debug),
                             show_background |->
                                 ShownUnderDebug(visualizer.Caf.show_background, a.debug) ],
                   Cif |-> [ show_confidences |-> (a.debug_cif_c \/ a.debug),
                             show_regressions |-> (a.debug_cif_v \/ a.debug),
                             show_background |->
                                 ShownUnderDebug(visualizer.Cif.show_background, a.debug) ],
                   CifHr |-> [show |-> a.debug_cifhr],
                   Occupancy |-> [show |->
                                 ShownUnderDebug(visualizer.Occupancy.show, a.debug)],
                   Seeds |-> [show |->
                                 ShownUnderDebug(visualizer.Seeds.show, a.debug)] ],
               args |-> [a EXCEPT !.debug_indices = ParsedIndices(parts)],
               raised |-> "none" ]

\* the --debug-indices lists tried
DebugIndexLists ==
    { <<>>,
      << <<"c", "i", "f", ":", "5">> >>,
      << <<"c", "a", "f", ":", "1", "2">>, <<"c", "i", "f", ":", "0">> >>,
      << <<"c", "i", "f">> >>,
      << <<"c", "i", "f", ":", "5">>, <<"c", "a", "f", ":", "x">> >>,
      << <<"c", "i", "f", ":", "5", ":", "1">> >> }

VisualizerArgs ==
    [ debug_cifhr : BOOLEAN,
      debug_cif_c : BOOLEAN,
      debug_cif_v : BOOLEAN,
      debug_caf_c : BOOLEAN,
      debug_caf_v : BOOLEAN,
      debug_indices : DebugIndexLists,
      debug : BOOLEAN ]

ConfigureVisualizer(a) ==
    /\ vis_call = "idle"
    /\ \E r \in {configure_visualizer(a)} :
        /\ visualizer' = r.visualizer
        /\ vis_call' = "configure"
        /\ vis_given' = a
        /\ vis_args' = r.args
        /\ vis_raised' = r.raised
        /\ debug_seen' = (debug_seen \/ (a.debug /\ r.raised = "none"))
    /\ UNCHANGED <<cfgVars, decVars, dentalVars>>

\* the caller drops the namespace
ReleaseVisualizer ==
    /\ vis_call # "idle"
    /\ vis_call' = "idle"
    /\ vis_given' = NoArgs
    /\ vis_args' = NoArgs
    /\ vis_raised' = "none"
    /\ UNCHANGED <<visualizer, debug_seen>>
    /\ UNCHANGED <<cfgVars, decVars, dentalVars>>

\* the visualizer classes as imported: nothing is shown unless the class
\* definition says so
VisualizerClasses(background, occupancy_show, seeds_show) ==
    [ BaseVisualizer |-> [all_indices |-> <<>>],
      Caf |-> [ show_confidences |-> FALSE, show_regressions |-> FALSE,
                show_background |-> background ],
      Cif |-> [ show_confidences |-> FALSE, show_regressions |-> FALSE,
                show_background |-> background ],
      CifHr |-> [show |-> FALSE],
      Occupancy |-> [show |-> occupancy_show],
      Seeds |-> [show |-> seeds_show] ]

\* no visualizer configure() call is in progress and none has been made
NoVisualizerCall ==
    /\ vis_call = "idle"
    /\ vis_given = NoArgs
    /\ vis_args = NoArgs
    /\ vis_raised = "none"
    /\ debug_seen = FALSE

\* the visualizer classes before the first configure() call
VisualizerDefaults ==
    /\ visualizer = VisualizerClasses(FALSE, FALSE, FALSE)
    /\ NoVisualizerCall

\* ------------------------------------------------------------------------
\* The dental plugin: constants.get_constants(), DentalKp.configure(args)
\* and DentalKp.__init__().  Floats are in thousandths.
\* ------------------------------------------------------------------------

\* the largest --dental-upsample tried
MaxUpsample == 2

KEYPOINTS ==
    <<"cej_left", "cej_right", "aeac_left", "aeac_right", "apex_left", "apex_right">>

SKELETON == << <<1, 3>>, <<3, 5>>, <<2, 4>>, <<4, 6>> >>

\* [value] * n
Repeat(value, n) == [k \in 1..n |-> value]

SIGMAS == Repeat(50, Len(KEYPOINTS))

\* split, error = divmod(len(KEYPOINTS), 4)
SCORE_WEIGHTS ==
    LET split == Len(KEYPOINTS) \div 4
        error == Len(KEYPOINTS) % 4
    IN  Repeat(10000, split) \o Repeat(3000, split) \o Repeat(1000, split)
            \o Repeat(100, split) \o Repeat(100, error)

HFLIP ==
    [ cej_left |-> "cej_right", cej_right |-> "cej_left",
      aeac_left |-> "aeac_right", aeac_right |-> "aeac_left",
      apex_left |-> "apex_right", apex_right |-> "apex_left" ]

CATEGORIES == <<"tooth">>

FRONT == -6000

\* the POSE array as the module defines it
POSE_AT_IMPORT ==
    << <<-2900, 4000, FRONT \div 2>>,
       <<2900, 4000, FRONT \div 2>>,
       <<-2000, 2000, FRONT>>,
       <<2000, 2000, FRONT>>,
       <<-2500, 0, FRONT>>,
       <<2500, 0, FRONT>> >>

\* POSE[:, 2] = 2.0
FlattenedPose(pose) == [k \in 1..Len(pose) |-> [pose[k] EXCEPT ![3] = 2000]]

\* get_constants(): the array it leaves behind and the list it returns
get_constants ==
    LET pose == FlattenedPose(POSE)
    IN  [ POSE |-> pose,
          returned |-> [ dental_keypoints |-> KEYPOINTS,
                         dental_skeleton |-> SKELETON,
                         hflip |-> HFLIP,
                         dental_sigmas |-> SIGMAS,
                         dental_pose |-> pose,
                         dental_categories |-> CATEGORIES,
                         dental_score_weights |-> SCORE_WEIGHTS ] ]

\* None, where the attribute otherwise holds a list, a dict or an array
NoneObject == [none |-> TRUE]

\* the class attributes of DentalKp as the class body defines them
DentalKpClass ==
    [ debug |-> TRUE,
      pin_memory |-> FALSE,
      train_annotations |-> "data-dental/annotations/dental_keypoints_66_train.json",
      val_annotations |-> "data-dental/annotations/dental_keypoints_66_val.json",
      eval_annotations |-> "data-dental/annotations/dental_keypoints_66_val.json",
      train_image_dir |-> "data-dental/images/train/",
      val_image_dir |-> "data-dental/images/val/",
      eval_image_dir |-> "data-dental/images/val/",
      n_images |-> None,
      square_edge |-> 513,
      extended_scale |-> FALSE,
      orientation_invariant |-> 0,
      blur |-> 0,
      augmentation |-> TRUE,
      rescale_images |-> 1000,
      upsample_stride |-> 1,
      min_kp_anns |-> 1,
      b_min |-> 1,
      eval_annotation_filter |-> TRUE,
      eval_long_edge |-> 0,
      eval_orientation_invariant |-> 0,
      eval_extended_scale |-> FALSE,
      hflip |-> NoneObject,
      weights |-> NoneObject,
      dental_categories |-> NoneObject,
      dental_keypoints |-> NoneObject,
      dental_skeleton |-> NoneObject,
      dental_sigmas |-> NoneObject,
      dental_pose |-> NoneObject,
      dental_score_weights |-> NoneObject ]

\* a class attribute assigned from an attribute of args
FromArgs(target, name) == [target |-> target, from |-> "args", name |-> name]

\* a class attribute assigned from another class attribute
FromClass(target, name) == [target |-> target, from |-> "cls", name |-> name]

\* configure, the assignments before the constants are installed
AssignmentsBefore ==
    << FromArgs("debug", "debug"),
       FromArgs("pin_memory", "pin_memory"),
       FromArgs("train_annotations", "dental_train_annotations"),
       FromArgs("val_annotations", "dental_val_annotations"),
       FromClass("eval_annotations", "val_annotations"),
       FromArgs("train_image_dir", "dental_train_image_dir"),
       FromArgs("val_image_dir", "dental_val_image_dir"),
       FromClass("eval_image_dir", "val_image_dir"),
       FromArgs("square_edge", "dental_square_edge"),
       FromArgs("extended_scale", "dental_extended_scale"),
       FromArgs("orientation_invariant", "dental_orientation_invariant"),
       FromArgs("blur", "dental_blur"),
       FromArgs("augmentation", "dental_augmentation"),
       FromArgs("rescale_images", "dental_rescale_images"),
       FromArgs("upsample_stride", "dental_upsample"),
       FromArgs("min_kp_anns", "dental_min_kp_anns"),
       FromArgs("b_min", "dental_bmin") >>

\* configure, the assignments after the constants are installed
AssignmentsAfter ==
    << FromArgs("eval_annotation_filter", "dental_eval_annotation_filter"),
       FromArgs("eval_long_edge", "dental_eval_long_edge"),
       FromArgs("eval_orientation_invariant", "dental_eval_orientation_invariant"),
       FromArgs("eval_extended_scale", "dental_eval_extended_scale") >>

\* the assignments from the k-th on, in order; reading an attribute the
\* namespace lacks raises AttributeError and leaves the rest undone
RECURSIVE Assign(_, _, _, _)
Assign(cls, a, steps, k) ==
    IF k > Len(steps)
    THEN [cls |-> cls, raised |-> "none"]
    ELSE LET step == steps[k]
         IN  IF step.from = "cls"
             THEN Assign([cls EXCEPT ![step.target] = cls[step.name]], a, steps, k + 1)
             ELSE IF step.name \notin DOMAIN a
                  THEN [cls |-> cls, raised |-> "AttributeError"]
                  ELSE Assign([cls EXCEPT ![step.target] = a[step.name]], a, steps, k + 1)

\* the tuple assignment of what get_constants() returned
InstallConstants(cls, returned) ==
    [f \in DOMAIN cls |-> IF f \in DOMAIN returned THEN returned[f] ELSE cls[f]]

\* DentalKp.configure(args): the class attributes and the POSE array it
\* leaves behind, and the exception it ends with
dental_configure(a) ==
    LET before == Assign(DentalKp, a, AssignmentsBefore, 1)
    IN  IF before.raised # "none"
        THEN [cls |-> before.cls, POSE |-> POSE, raised |-> before.raised]
        ELSE LET constants == get_constants
                 after == Assign(InstallConstants(before.cls, constants.returned),
                                 a, AssignmentsAfter, 1)
             IN  [cls |-> after.cls, POSE |-> constants.POSE, raised |-> after.raised]

\* the namespace the argument parsers build
DentalArgs ==
    [ debug : BOOLEAN,
      pin_memory : BOOLEAN,
      dental_train_annotations : {"data-dental/annotations/dental_keypoints_66_train.json"},
      dental_val_annotations : {"data-dental/annotations/dental_keypoints_66_val.json"},
      dental_train_image_dir : {"data-dental/images/train/"},
      dental_val_image_dir : {"data-dental/images/val/"},
      dental_square_edge : {513},
      dental_extended_scale : {FALSE},
      dental_orientation_invariant : {0},
      dental_blur : {0},
      dental_augmentation : {TRUE},
      dental_rescale_images : {1000},
      dental_upsample : 1..MaxUpsample,
      dental_min_kp_anns : {1},
      dental_bmin : {1},
      dental_eval_annotation_filter : {TRUE},
      dental_eval_long_edge : {0},
      dental_eval_orientation_invariant : {0},
      dental_eval_extended_scale : BOOLEAN ]

\* a namespace that lacks one attribute
Without(a, name) == [f \in DOMAIN a \ {name} |-> a[f]]

\* the namespaces tried: complete ones, and ones built by a parser that
\* never registered --dental-upsample or --dental-eval-long-edge
DentalNamespaces ==
    DentalArgs
        \cup { Without(a, "dental_upsample") : a \in DentalArgs }
        \cup { Without(a, "dental_eval_long_edge") : a \in DentalArgs }

DentalConfigure(a) ==
    /\ dental_call = "idle"
    /\ \E r \in {dental_configure(a)} :
        /\ DentalKp' = r.cls
        /\ POSE' = r.POSE
        /\ dental_raised' = r.raised
        /\ dental_configured' = (dental_configured \/ r.raised = "none")
    /\ dental_call' = "configure"
    /\ dental_given' = a
    /\ head_metas' = <<>>
    /\ UNCHANGED <<cfgVars, decVars, visVars>>

\* the assertions are gone: any class state passes
ConstantsInstalledUnchecked(cls) == TRUE

\* __init__, the three assertions
ConstantsInstalled(cls) ==
    /\ cls.dental_keypoints # NoneObject
    /\ cls.dental_sigmas # NoneObject
    /\ cls.dental_skeleton # NoneObject

RECURSIVE Sum(_)
Sum(ws) == IF Len(ws) = 0 THEN 0 ELSE ws[1] + Sum(Tail(ws))

Max(x, y) == IF x >= y THEN x ELSE y

\* __init__, the training weights of the association field: for every
\* bone the larger weight of its two joints, normalised to mean one
CafWeights(cls) ==
    IF cls.weights # NoneObject
    THEN LET w == [k \in 1..Len(cls.dental_skeleton) |->
                       Max(cls.weights[cls.dental_skeleton[k][1]],
                           cls.weights[cls.dental_skeleton[k][2]])]
         IN  [k \in 1..Len(w) |-> (w[k] * Len(w) * 1000) \div Sum(w)]
    ELSE NoneObject

\* openpifpaf.headmeta.Cif('cif', 'dental', ...) with its upsample stride
CifMeta(cls) ==
    [ name |-> "cif",
      dataset |-> "dental",
      keypoints |-> cls.dental_keypoints,
      sigmas |-> cls.dental_sigmas,
      pose |-> cls.dental_pose,
      draw_skeleton |-> cls.dental_skeleton,
      score_weights |-> cls.dental_score_weights,
      training_weights |-> cls.weights,
      upsample_stride |-> cls.upsample_stride ]

\* openpifpaf.headmeta.Caf('caf', 'dental', ...) with its upsample stride
CafMeta(cls) ==
    [ name |-> "caf",
      dataset |-> "dental",
      keypoints |-> cls.dental_keypoints,
      sigmas |-> cls.dental_sigmas,
      pose |-> cls.dental_pose,
      skeleton |-> cls.dental_skeleton,
      training_weights |-> CafWeights(cls),
      upsample_stride |-> cls.upsample_stride ]

\* DentalKp(): the head metas of the new instance, and the exception the
\* construction ends with
DentalKp_init(cls) ==
    IF ~ConstantsInstalled(cls)
    THEN [head_metas |-> <<>>, raised |-> "AssertionError"]
    ELSE [head_metas |-> <<CifMeta(cls), CafMeta(cls)>>, raised |-> "none"]

Construct ==
    /\ dental_call = "idle"
    /\ \E r \in {DentalKp_init(DentalKp)} :
        /\ head_metas' = r.head_metas
        /\ dental_raised' = r.raised
    /\ dental_call' = "__init__"
    /\ dental_given' = NoArgs
    /\ UNCHANGED <<DentalKp, POSE, dental_configured>>
    /\ UNCHANGED <<cfgVars, decVars, visVars>>

\* the caller drops the namespace, the instance or the exception
ReleaseDental ==
    /\ dental_call # "idle"
    /\ dental_call' = "idle"
    /\ dental_given' = NoArgs
    /\ dental_raised' = "none"
    /\ head_metas' = <<>>
    /\ UNCHANGED <<DentalKp, POSE, dental_configured>>
    /\ UNCHANGED <<cfgVars, decVars, visVars>>

\* the dental plugin as imported
DentalDefaults ==
    /\ DentalKp = DentalKpClass
    /\ POSE = POSE_AT_IMPORT
    /\ dental_call = "idle"
    /\ dental_given = NoArgs
    /\ dental_raised = "none"
    /\ head_metas = <<>>
    /\ dental_configured = FALSE

\* ------------------------------------------------------------------------
\* Initial state: the class attributes before the first configure() call.
\* ------------------------------------------------------------------------

\* no decode call is in progress
NoDecodeCall ==
    /\ seeds = <<>>
    /\ caf = [none |-> TRUE]
    /\ instance_threshold = 0
    /\ pc = "idle"
    /\ pos = 1
    /\ occupancy = <<>>
    /\ current = [none |-> TRUE]
    /\ started = {}
    /\ annotations = <<>>
    /\ instance_threshold_2 = 0
    /\ annotations_2 = <<>>

Init ==
    /\ CifHr = [v_threshold |-> 100, debug_visualizer |-> FALSE]
    /\ CifSeeds = [threshold |-> SeedThresholdDefault, debug_visualizer |-> FALSE]
    /\ CafScored = [default_score_th |-> 100]
    /\ Processor = [debug_visualizer |-> FALSE]
    /\ CifCaf \in [ debug_visualizer : {FALSE},
                    force_complete : BOOLEAN,
                    keypoint_threshold : {KeypointThresholdForced},
                    greedy : {FALSE},
                    connection_method : {"blend"} ]
    /\ call = "idle"
    /\ given = NoArgs
    /\ args = NoArgs
    /\ raised = "none"
    /\ configured = "none"
    /\ decode = NoDecoder
    /\ processor = NoProcessor
    /\ NoDecodeCall
    /\ VisualizerDefaults
    /\ DentalDefaults

\* the caller drops the namespace and whatever the call returned
Release ==
    /\ call # "idle"
    /\ call' = "idle"
    /\ given' = NoArgs
    /\ args' = NoArgs
    /\ raised' = "none"
    /\ configured' = "none"
    /\ decode' = NoDecoder
    /\ processor' = NoProcessor
    /\ UNCHANGED <<CifHr, CifSeeds, CafScored, CifCaf, Processor>>
    /\ UNCHANGED <<decVars, visVars, dentalVars>>

Next ==
    \/ \E a \in ConfigureArgs : Configure(a)
    \/ \E m \in Models, kw \in DecodeArgs : FactoryDecode(m, kw)
    \/ \E a \in FactoryArgs, m \in Models : FactoryFromArgs(a, m)
    \/ Release

Spec == Init /\ [][Next]_vars

\* the decoder configuration as imported, no call in progress
DecoderDefaults ==
    /\ CifHr = [v_threshold |-> 100, debug_visualizer |-> FALSE]
    /\ CifSeeds = [threshold |-> SeedThresholdDefault, debug_visualizer |-> FALSE]
    /\ CafScored = [default_score_th |-> 100]
    /\ Processor = [debug_visualizer |-> FALSE]
    /\ CifCaf = [ debug_visualizer |-> FALSE,
                  force_complete |-> FALSE,
                  keypoint_threshold |-> KeypointThresholdForced,
                  greedy |-> FALSE,
                  connection_method |-> "blend" ]
    /\ call = "idle"
    /\ given = NoArgs
    /\ args = NoArgs
    /\ raised = "none"
    /\ configured = "none"
    /\ decode = NoDecoder
    /\ processor = NoProcessor

\* the visualizer configuration on its own: whatever the class definitions
\* show by default, any sequence of configure() calls
InitVisualizer ==
    /\ DecoderDefaults
    /\ NoDecodeCall
    /\ \E bg \in BOOLEAN, occ \in BOOLEAN, sd \in BOOLEAN :
           visualizer = VisualizerClasses(bg, occ, sd)
    /\ NoVisualizerCall
    /\ DentalDefaults

NextVisualizer ==
    \/ \E a \in VisualizerArgs : ConfigureVisualizer(a)
    \/ ReleaseVisualizer

SpecVisualizer == InitVisualizer /\ [][NextVisualizer]_vars

\* the dental plugin on its own: configure() calls and constructions in
\* any order
InitDental ==
    /\ DecoderDefaults
    /\ NoDecodeCall
    /\ VisualizerDefaults
    /\ DentalDefaults

NextDental ==
    \/ \E a \in DentalNamespaces : DentalConfigure(a)
    \/ Construct
    \/ ReleaseDental

SpecDental == InitDental /\ [][NextDental]_vars

\* ------------------------------------------------------------------------
\* One decode call of the greedy assembler (generator.CifCaf), with its
\* seed pool (CifSeeds), association field (CafScored) and occupancy grid.
\* A skeleton of two keypoint classes and one edge is decoded on a line of
\* image coordinates 0..MaxX.
\* ------------------------------------------------------------------------

\* the keypoint classes and the skeleton edge that joins them
Classes == {1, 2}
EdgeSource == 1
EdgeTarget == 2

\* the occupancy raster is coarser than the image
CellSize == 2

Positions == 0..MaxX

\* the occupancy cell of an image coordinate
Cell(x) == x \div CellSize

SeedScores == {850, 900}

SeedSet == [class : Classes, x : Positions, score : SeedScores]

\* the pool is sorted by score, descending; ties stay in insertion order
IsSortedDescending(s) ==
    \A i \in 1..(Len(s) - 1) : s[i].score >= s[i + 1].score

SeedPools ==
    { s \in UNION { [1..n -> SeedSet] : n \in 0..MaxSeeds } :
          IsSortedDescending(s) }

\* the CAF field of the edge: no activation, or one association from a
\* source-class location to a target-class location
NoCaf == [none |-> TRUE]

CafFields ==
    {NoCaf} \cup [src : Positions, dst : Positions, score : {1, 500}]

NoInstance == [none |-> TRUE]

Unset == [set |-> FALSE, x |-> 0, confidence |-> 0]

\* every cell counts as free
IsOccupiedNever(occ, class, x) == FALSE

\* is_occupied(class, x): the cell of x is claimed for the class
IsOccupied(occ, class, x) == Cell(x) \in occ[class]

\* mark(class, x): claim the cell of x for the class; nothing is unmarked
Mark(occ, class, x) == [occ EXCEPT ![class] = @ \cup {Cell(x)}]

\* the candidate joint the CAF field offers to an instance: from a set
\* endpoint of the edge to its unset other endpoint
Candidates(inst) ==
    IF caf = NoCaf THEN {}
    ELSE { c \in [class : Classes, x : Positions, score : {caf.score}] :
             \/ /\ c.class = EdgeTarget
                /\ inst.joints[EdgeSource].set
                /\ ~inst.joints[EdgeTarget].set
                /\ inst.joints[EdgeSource].x = caf.src
                /\ c.x = caf.dst
             \/ /\ c.class = EdgeSource
                /\ inst.joints[EdgeTarget].set
                /\ ~inst.joints[EdgeSource].set
                /\ inst.joints[EdgeTarget].x = caf.dst
                /\ c.x = caf.src }

\* the candidates that may be committed: unoccupied and above the
\* keypoint threshold
Acceptable(inst) ==
    { c \in Candidates(inst) :
          /\ ~IsOccupied(occupancy, c.class, c.x)
          /\ c.score > CifCaf.keypoint_threshold }

\* no joint is filled in
CompletedNothing(inst) ==
    [root |-> inst.root, joints |-> inst.joints, filled |-> {}]

\* forced completion: an unset joint is placed at the root joint's location
\* with confidence 0; filled names the joints placed this way
Completed(inst) ==
    IF CifCaf.force_complete
    THEN [ root |-> inst.root,
           joints |-> [c \in Classes |->
                  IF inst.joints[c].set THEN inst.joints[c]
                  ELSE [set |-> TRUE, x |-> seeds[inst.root].x, confidence |-> 0]],
           filled |-> {c \in Classes : ~inst.joints[c].set} ]
    ELSE [root |-> inst.root, joints |-> inst.joints, filled |-> {}]

\* the aggregate score: the mean joint confidence, unset joints counting 0
InstanceScore(inst) ==
    (inst.joints[EdgeSource].confidence + inst.joints[EdgeTarget].confidence)
        \div Cardinality(Classes)

\* the comparison with the instance threshold reversed
KeptAtReversed(inst, t) ==
    /\ InstanceScore(inst) <= t
    /\ \E c \in Classes : inst.joints[c].set /\ inst.joints[c].confidence > 0

\* an instance is kept under instance threshold t unless its score is below
\* t or it has no confidently scored joint
KeptAt(inst, t) ==
    /\ InstanceScore(inst) >= t
    /\ \E c \in Classes : inst.joints[c].set /\ inst.joints[c].confidence > 0

Kept(inst) == KeptAt(inst, instance_threshold)

\* step 2: the next seed is not occupied and starts an instance
StartInstance ==
    /\ pc = "seed"
    /\ pos <= Len(seeds)
    /\ ~IsOccupied(occupancy, seeds[pos].class, seeds[pos].x)
    /\ current' = [ root |-> pos,
                    joints |-> [c \in Classes |->
                        IF c = seeds[pos].class
                        THEN [set |-> TRUE, x |-> seeds[pos].x,
                              confidence |-> seeds[pos].score]
                        ELSE Unset] ]
    /\ occupancy' = Mark(occupancy, seeds[pos].class, seeds[pos].x)
    /\ started' = started \cup {pos}
    /\ pc' = "grow"
    /\ UNCHANGED <<seeds, caf, instance_threshold, pos, annotations,
                   instance_threshold_2, annotations_2>>
    /\ UNCHANGED <<cfgVars, visVars, dentalVars>>

\* step 2: the next seed falls in an occupied cell and is passed over
SuppressSeed ==
    /\ pc = "seed"
    /\ pos <= Len(seeds)
    /\ IsOccupied(occupancy, seeds[pos].class, seeds[pos].x)
    /\ pos' = pos + 1
    /\ UNCHANGED <<seeds, caf, instance_threshold, pc, occupancy, current,
                   started, annotations, instance_threshold_2, annotations_2>>
    /\ UNCHANGED <<cfgVars, visVars, dentalVars>>

\* step 3: a candidate joint is committed and its cell marked
Grow ==
    /\ pc = "grow"
    /\ \E c \in Acceptable(current) :
           /\ current' = [current EXCEPT !.joints[c.class] =
                              [set |-> TRUE, x |-> c.x, confidence |-> c.score]]
           /\ occupancy' = Mark(occupancy, c.class, c.x)
    /\ UNCHANGED <<seeds, caf, instance_threshold, pc, pos, started, annotations,
                   instance_threshold_2, annotations_2>>
    /\ UNCHANGED <<cfgVars, visVars, dentalVars>>

\* steps 4-6: growth has ended; the instance is completed, scored and
\* kept or dropped
FinalizeInstance ==
    /\ pc = "grow"
    /\ Acceptable(current) = {}
    /\ annotations' = IF Kept(Completed(current))
                      THEN Append(annotations, Completed(current))
                      ELSE annotations
    /\ annotations_2' = IF KeptAt(Completed(current), instance_threshold_2)
                        THEN Append(annotations_2, Completed(current))
                        ELSE annotations_2
    /\ current' = NoInstance
    /\ pos' = pos + 1
    /\ pc' = "seed"
    /\ UNCHANGED <<seeds, caf, instance_threshold, occupancy, started,
                   instance_threshold_2>>
    /\ UNCHANGED <<cfgVars, visVars, dentalVars>>

\* step 7: the seed pool is exhausted
Finish ==
    /\ pc = "seed"
    /\ pos > Len(seeds)
    /\ pc' = "done"
    /\ UNCHANGED <<seeds, caf, instance_threshold, pos, occupancy, current,
                   started, annotations, instance_threshold_2, annotations_2>>
    /\ UNCHANGED <<cfgVars, visVars, dentalVars>>

\* the start of a decode call: the configuration is in place, the fields
\* of the image are given, the occupancy grid is empty
InitDecode ==
    /\ CifHr = [v_threshold |-> 100, debug_visualizer |-> TRUE]
    /\ CifSeeds = [threshold |-> SeedThresholdDefault, debug_visualizer |-> TRUE]
    /\ CafScored = [default_score_th |-> 100]
    /\ Processor = [debug_visualizer |-> TRUE]
    /\ \E fc \in BOOLEAN :
           CifCaf = [ debug_visualizer |-> TRUE,
                      force_complete |-> fc,
                      keypoint_threshold |-> IF fc THEN KeypointThresholdForced
                                                   ELSE KeypointThresholdUnforced,
                      greedy |-> FALSE,
                      connection_method |-> "blend" ]
    /\ call = "idle"
    /\ given = NoArgs
    /\ args = NoArgs
    /\ raised = "none"
    /\ configured = "none"
    /\ decode = NoDecoder
    /\ processor = NoProcessor
    /\ seeds \in SeedPools
    /\ \A i \in 1..Len(seeds) : seeds[i].score >= CifSeeds.threshold
    /\ caf \in CafFields
    /\ instance_threshold \in {0, 500}
    /\ pc = "seed"
    /\ pos = 1
    /\ occupancy = [c \in Classes |-> {}]
    /\ current = NoInstance
    /\ started = {}
    /\ annotations = <<>>
    /\ instance_threshold_2 \in {0, 500}
    /\ instance_threshold <= instance_threshold_2
    /\ annotations_2 = <<>>
    /\ VisualizerDefaults
    /\ DentalDefaults

NextDecode ==
    \/ StartInstance
    \/ SuppressSeed
    \/ Grow
    \/ FinalizeInstance
    \/ Finish

SpecDecode == InitDecode /\ [][NextDecode]_vars

\* ------------------------------------------------------------------------
\* Properties of the configuration layer
\* ------------------------------------------------------------------------

\* the last call ran configure(): directly, or through factory_from_args()
RanConfigure == call \in {"configure", "factory_from_args"}

\* the namespace the last call was given
GivenArgs == IF call = "configure" THEN given ELSE given.args

\* the last call ran factory_decode(): directly, or through
\* factory_from_args() after configure() returned
RanFactoryDecode ==
    \/ call = "factory_decode"
    \/ call = "factory_from_args" /\ configured = "ok"

GivenModel == given.model

GivenDecodeArgs == IF call = "factory_decode" THEN given.kw ELSE given.args

\* C1: in every state reached by configure() calls, failing ones included,
\* the stored seed threshold is at least the stored keypoint threshold.
C1_SeedAtLeastKeypoint ==
    CifSeeds.threshold >= CifCaf.keypoint_threshold

\* C2: after a configure() call that returned normally, a forced complete
\* pose has keypoint threshold 0.0; and a call with force_complete_pose and
\* an explicit non-zero keypoint_threshold does not return normally.
C2_ForceCompleteZeroThreshold ==
    RanConfigure =>
        /\ configured = "ok" =>
               (CifCaf.force_complete => CifCaf.keypoint_threshold = 0)
        /\ ( /\ GivenArgs.force_complete_pose
             /\ GivenArgs.keypoint_threshold # None
             /\ GivenArgs.keypoint_threshold # 0 ) => configured # "ok"

C2_Witness ==
    /\ call = "configure"
    /\ configured = "ok"
    /\ given.force_complete_pose
    /\ given.keypoint_threshold = 0
    /\ CifCaf.force_complete

\* C3: a keypoint_threshold of None becomes 0.0 under force_complete_pose
\* and 0.001 otherwise; a given keypoint_threshold is kept; the value is
\* the one stored when configure() returns normally.
C3_DerivedKeypointThreshold ==
    RanConfigure =>
        /\ GivenArgs.keypoint_threshold = None =>
               args.keypoint_threshold =
                   (IF GivenArgs.force_complete_pose THEN 0 ELSE 1)
        /\ GivenArgs.keypoint_threshold # None =>
               args.keypoint_threshold = GivenArgs.keypoint_threshold
        /\ configured = "ok" =>
               CifCaf.keypoint_threshold = args.keypoint_threshold

C3_Witness ==
    /\ call = "configure"
    /\ configured = "ok"
    /\ given.keypoint_threshold = None
    /\ ~given.force_complete_pose
    /\ args.keypoint_threshold = 1
    /\ CifCaf.keypoint_threshold = 1

\* the consistency conditions of the configuration, on a namespace as given
Violates(a) ==
    LET kp == IF a.keypoint_threshold = None
              THEN (IF a.force_complete_pose THEN 0 ELSE 1)
              ELSE a.keypoint_threshold
    IN  \/ a.seed_threshold < kp
        \/ a.force_complete_pose /\ kp # 0

\* C4: factory_from_args() with an inconsistent configuration fails inside
\* configure(): no decoder is instantiated and no Processor is returned.
C4_ViolationIsFatal ==
    (call = "factory_from_args" /\ Violates(given.args)) =>
        /\ configured = "AssertionError"
        /\ raised = "AssertionError"
        /\ decode = NoDecoder
        /\ processor = NoProcessor

C4_Witness ==
    /\ call = "factory_from_args"
    /\ given.args.seed_threshold < args.keypoint_threshold
    /\ ~given.args.force_complete_pose
    /\ given.model.head_names = <<"cif", "caf", "caf25">>
    /\ ~given.args.multi_scale
    /\ raised = "AssertionError"
    /\ processor = NoProcessor

\* C5: for head names other than ('cifdet',) and ('cif', 'caf', 'caf25'),
\* factory_decode() raises and returns no decoder, whatever its options.
C5_UnknownHeadsRaise ==
    ( /\ RanFactoryDecode
      /\ GivenModel.head_names \notin {<<"cifdet">>, <<"cif", "caf", "caf25">>} ) =>
        /\ raised # "none"
        /\ decode = NoDecoder
        /\ processor = NoProcessor

C5_Witness ==
    /\ call = "factory_decode"
    /\ given.model.head_names = <<"cif", "caf">>
    /\ ~given.kw.caf_seeds
    /\ ~given.kw.multi_scale
    /\ raised = "Exception"
    /\ decode = NoDecoder

\* C6: for head names ('cifdet',), factory_decode() returns a CifDet decoder
\* built from the stride of head 0.
C6_CifDetReturned ==
    ( /\ call = "factory_decode"
      /\ given.model.head_names = <<"cifdet">>
      /\ ~given.kw.caf_seeds ) =>
        /\ raised = "none"
        /\ decode.kind = "CifDet"
        /\ decode.stride = given.model.head_strides[1]
        /\ decode.head_index = 0

\* C7 as stated: after a configure() call that returned normally with
\* decoder_workers not given and batch_size > 1, decoder_workers equals
\* batch_size; and a decoder_workers that was given is never changed.
C7_WorkersDefaultToBatchSize ==
    call = "configure" =>
        /\ ( /\ configured = "ok"
             /\ given.decoder_workers = None
             /\ given.batch_size # None
             /\ given.batch_size > 1 ) =>
               args.decoder_workers = args.batch_size
        /\ given.decoder_workers # None =>
               args.decoder_workers = given.decoder_workers

\* C7 amended: the default applies only when args.debug is not set.
C7_WorkersDefaultUnlessDebug ==
    RanConfigure =>
        /\ ( /\ configured = "ok"
             /\ GivenArgs.decoder_workers = None
             /\ GivenArgs.batch_size # None
             /\ GivenArgs.batch_size > 1
             /\ ~GivenArgs.debug ) =>
               /\ args.decoder_workers = GivenArgs.batch_size
               /\ args.batch_size = GivenArgs.batch_size
        /\ GivenArgs.decoder_workers # None =>
               args.decoder_workers = GivenArgs.decoder_workers

C7_Witness ==
    /\ call = "configure"
    /\ configured = "ok"
    /\ given.decoder_workers = None
    /\ given.batch_size = MaxBatch
    /\ ~given.debug
    /\ args.decoder_workers = MaxBatch

\* C8: with multi_scale, factory_decode() returns a decoder whose seven
\* per-pair lists have length five, and length ten with multi_scale_hflip,
\* where pair k+5 repeats the stride, minimum scale and distance bounds of
\* pair k.
C8_MultiScalePairs ==
    ( /\ call = "factory_decode"
      /\ given.model.head_names = <<"cif", "caf", "caf25">>
      /\ Len(given.model.head_strides) >= 3 * NumScalesHflip
      /\ ~given.kw.caf_seeds
      /\ given.kw.multi_scale ) =>
        /\ raised = "none"
        /\ decode.kind = "CifCaf"
        /\ LET fc == decode.field_config
               n == IF given.kw.multi_scale_hflip THEN 10 ELSE 5
           IN  /\ Len(fc.cif_indices) = n
               /\ Len(fc.caf_indices) = n
               /\ Len(fc.cif_strides) = n
               /\ Len(fc.caf_strides) = n
               /\ Len(fc.cif_min_scales) = n
               /\ Len(fc.caf_min_distances) = n
               /\ Len(fc.caf_max_distances) = n
               /\ given.kw.multi_scale_hflip =>
                      \A k \in 1..5 :
                          /\ fc.cif_strides[k + 5] = fc.cif_strides[k]
                          /\ fc.caf_strides[k + 5] = fc.caf_strides[k]
                          /\ fc.cif_min_scales[k + 5] = fc.cif_min_scales[k]
                          /\ fc.caf_min_distances[k + 5] = fc.caf_min_distances[k]
                          /\ fc.caf_max_distances[k + 5] = fc.caf_max_distances[k]

\* C9: the output skeleton is the base skeleton; with dense_connections the
\* decoder skeleton is the base skeleton followed by the dense edges and
\* confidence_scales has one multiplier per edge, 1.0 for a base edge and
\* dense_coupling for a dense edge; without it the decoder skeleton is the
\* base skeleton.
C9_DenseSkeleton ==
    (RanFactoryDecode /\ decode.kind = "CifCaf") =>
        LET nb == Len(COCO_PERSON_SKELETON)
            nd == Len(DENSER_COCO_PERSON_CONNECTIONS)
            scales == decode.field_config.confidence_scales
        IN  /\ decode.out_skeleton = COCO_PERSON_SKELETON
            /\ GivenDecodeArgs.dense_connections =>
                   /\ Len(decode.skeleton) = nb + nd
                   /\ \A k \in 1..nb : decode.skeleton[k] = COCO_PERSON_SKELETON[k]
                   /\ \A k \in 1..nd :
                          decode.skeleton[nb + k] = DENSER_COCO_PERSON_CONNECTIONS[k]
                   /\ Len(scales) = Len(decode.skeleton)
                   /\ \A k \in 1..nb : scales[k] = 1000
                   /\ \A k \in 1..nd : scales[nb + k] = GivenDecodeArgs.dense_coupling
            /\ ~GivenDecodeArgs.dense_connections =>
                   decode.skeleton = COCO_PERSON_SKELETON

C9_Witness ==
    /\ call = "factory_decode"
    /\ decode.kind = "CifCaf"
    /\ given.kw.dense_connections
    /\ given.kw.dense_coupling = 10
    /\ Len(decode.skeleton) = 44
    /\ Len(decode.field_config.confidence_scales) = 44

\* ------------------------------------------------------------------------
\* Properties of a decode call
\* ------------------------------------------------------------------------

\* C10: of two seeds of one keypoint class in one occupancy cell at most
\* one starts an instance; the cell of a seed that started an instance is
\* marked and stays marked, and a later seed in it starts none.
C10_OneInstancePerCell ==
    /\ \A i \in started : Cell(seeds[i].x) \in occupancy[seeds[i].class]
    /\ \A i \in started, j \in started :
           (i # j /\ seeds[i].class = seeds[j].class) =>
               Cell(seeds[i].x) # Cell(seeds[j].x)
    /\ \A i \in 1..Len(seeds), j \in 1..Len(seeds) :
           ( /\ i < j
             /\ j < pos
             /\ i \in started
             /\ seeds[i].class = seeds[j].class
             /\ Cell(seeds[i].x) = Cell(seeds[j].x) ) => j \notin started

C10_Witness ==
    /\ pc = "done"
    /\ Len(seeds) = 2
    /\ seeds[1].class = seeds[2].class
    /\ seeds[1].x # seeds[2].x
    /\ Cell(seeds[1].x) = Cell(seeds[2].x)
    /\ seeds[1].score = 900
    /\ seeds[2].score = 850
    /\ started = {1}
    /\ Len(annotations) = 1

\* C11: with force_complete_pose every returned instance has every joint
\* set, and a joint filled by forced completion reports confidence 0.
C11_ForcedCompletePose ==
    CifCaf.force_complete =>
        \A k \in 1..Len(annotations) :
            \A c \in Classes :
                /\ annotations[k].joints[c].set
                /\ c \in annotations[k].filled =>
                       annotations[k].joints[c].confidence = 0

C11_Witness ==
    /\ CifCaf.force_complete
    /\ pc = "done"
    /\ Len(annotations) = 1
    /\ annotations[1].filled # {}
    /\ \A c \in Classes : annotations[1].joints[c].set

\* C12: of two decode calls on the same fields and configuration whose
\* instance thresholds are t1 <= t2, the call under t2 returns a subset of
\* the instances of the call under t1, in the same order, and so no more.
C12_ThresholdMonotone ==
    instance_threshold <= instance_threshold_2 =>
        /\ Len(annotations_2) <= Len(annotations)
        /\ \A k \in 1..Len(annotations_2) :
               \E j \in k..Len(annotations) : annotations_2[k] = annotations[j]
        /\ \A k \in 1..Len(annotations) :
               InstanceScore(annotations[k]) >= instance_threshold_2 =>
                   \E j \in 1..Len(annotations_2) : annotations_2[j] = annotations[k]

C12_Witness ==
    /\ pc = "done"
    /\ instance_threshold = 0
    /\ instance_threshold_2 = 500
    /\ Len(annotations) = 2
    /\ Len(annotations_2) = 1

\* C13: for a ('cif', 'caf', 'caf25') model, single-scale or multi-scale,
\* factory_decode() indexes no list out of range and gives the CIF
\* visualizer of each pair the cif_strides entry of the pair, as the CAF
\* visualizer gets the caf_strides entry of the pair.
C13_VisualizerStrides ==
    ( /\ call = "factory_decode"
      /\ given.model.head_names = <<"cif", "caf", "caf25">>
      /\ Len(given.model.head_strides) >= 3 * NumScalesHflip
      /\ ~given.kw.caf_seeds ) =>
        /\ raised # "IndexError"
        /\ decode.kind = "CifCaf"
        /\ LET fc == decode.field_config
           IN  /\ Len(fc.cif_visualizers) = Len(fc.cif_indices)
               /\ Len(fc.caf_visualizers) = Len(fc.caf_indices)
               /\ \A k \in 1..Len(fc.cif_visualizers) :
                      fc.cif_visualizers[k].stride = fc.cif_strides[k]
               /\ \A k \in 1..Len(fc.caf_visualizers) :
                      fc.caf_visualizers[k].stride = fc.caf_strides[k]

\* ------------------------------------------------------------------------
\* Properties of the visualizer configuration
\* ------------------------------------------------------------------------

\* C14: once a visualizer configure() call with args.debug set has
\* returned, Occupancy.show, Seeds.show, Cif.show_background and
\* Caf.show_background are true, and later configure() calls, with or
\* without args.debug, leave them true.
C14_DebugFlagsSticky ==
    debug_seen =>
        /\ visualizer.Occupancy.show
        /\ visualizer.Seeds.show
        /\ visualizer.Cif.show_background
        /\ visualizer.Caf.show_background

C14_Witness ==
    /\ debug_seen
    /\ vis_call = "configure"
    /\ vis_raised = "none"
    /\ ~vis_given.debug
    /\ ~visualizer.Cif.show_confidences
    /\ visualizer.Cif.show_background
    /\ visualizer.Seeds.show

\* ------------------------------------------------------------------------
\* Properties of the dental data module
\* ------------------------------------------------------------------------

\* C15: constructing a DentalKp while dental_keypoints, dental_sigmas or
\* dental_skeleton is unset fails its assertion and builds no head metas;
\* constructing one after a configure() call has returned yields exactly
\* two head metas, cif then caf, with the same keypoints and the same
\* upsample stride.
C15_ConstructAfterConfigure ==
    dental_call = "__init__" =>
        /\ ( \/ DentalKp.dental_keypoints = NoneObject
             \/ DentalKp.dental_sigmas = NoneObject
             \/ DentalKp.dental_skeleton = NoneObject ) =>
               /\ dental_raised = "AssertionError"
               /\ head_metas = <<>>
        /\ ~dental_configured /\ dental_raised = "none" =>
               /\ DentalKp.dental_keypoints = KEYPOINTS
               /\ DentalKp.dental_sigmas = SIGMAS
               /\ DentalKp.dental_skeleton = SKELETON
        /\ dental_configured =>
               /\ dental_raised = "none"
               /\ Len(head_metas) = 2
               /\ head_metas[1].name = "cif"
               /\ head_metas[2].name = "caf"
               /\ head_metas[1].keypoints = KEYPOINTS
               /\ head_metas[1].keypoints = head_metas[2].keypoints
               /\ head_metas[1].upsample_stride = DentalKp.upsample_stride
               /\ head_metas[1].upsample_stride = head_metas[2].upsample_stride

C15_Witness ==
    /\ dental_call = "__init__"
    /\ dental_configured
    /\ dental_raised = "none"
    /\ Len(head_metas) = 2
    /\ head_metas[1].upsample_stride = MaxUpsample
    /\ head_metas[2].upsample_stride = MaxUpsample

====
